---- MODULE Spec2Model ----
(***************************************************************************)
(* onboardapis: the polling data connector of src/onboardapis/data.py.      *)
(*                                                                         *)
(* A PollingDataConnector is a DataConnector (a key/value cache) and a     *)
(* threading.Thread whose target is _run.  One foreground caller drives    *)
(* start(), stop(), reset(), store(); the thread, once started, executes   *)
(* Thread.run, which calls the target.  refresh() is abstract: it is       *)
(* modelled as a subtype's refresh that stores RefreshKeys one after the   *)
(* other and may raise at any point.                                       *)
(***************************************************************************)
EXTENDS Integers, Sequences, FiniteSets, TLC

VARIABLES
    _data,        \* DataConnector._data: the cache, key -> value or Absent
    _running,     \* PollingDataConnector._running
    _connected,   \* PollingDataConnector._connected
    _started,     \* Thread._started: start() was called since Thread.__init__
    _target,      \* Thread._target: "_run" after __init__, "None" after reset()
    alive,        \* Thread.is_alive()
    pc,           \* position of the thread: new, run, while, sleep, refresh, done
    counter,      \* _run's local counter
    rstep,        \* number of store() calls the refresh() in flight has made
    callerpc,     \* position of the caller: ready, stop_join, reset_join
    lastOp,       \* the caller's last call
    err,          \* what the caller's last call raised
    ncycles,      \* refresh() invocations of the thread since construction/reset
    nok,          \* of these, the ones that returned normally
    last,         \* outcome of the latest refresh(): none, ok, connerr, error
    wasReset,     \* reset() has returned at least once
    clock,        \* clock units since the latest cycle computed its target
    ret,          \* what the caller's last cache read returned
    written,      \* per key: the value the latest store under it wrote, or "never"
    _id,                  \* Station._id
    _connections,         \* Station._connections
    _lazy_func,           \* _LazyStation._lazy_func: "None" or "fetch"
    _cache_valid_until,   \* _LazyStation._cache_valid_until
    _cache_timeout,       \* _LazyStation._cache_timeout
    now,                  \* time.time(), in seconds
    lazyRet,              \* the latest read of the property connections
    scheduled,            \* ScheduledEvent.scheduled
    actual,               \* ScheduledEvent.actual
    eventArgs,            \* the arguments the ScheduledEvent was constructed with
    defaultRet            \* the latest call of default(): arguments and result

stationVars == <<_id, _connections, _lazy_func, _cache_valid_until,
                 _cache_timeout, now, lazyRet>>

dataVars == <<scheduled, actual, eventArgs, defaultRet>>

vars == <<_data, _running, _connected, _started, _target, alive, pc, counter,
          rstep, callerpc, lastOp, err, ncycles, nok, last, wasReset, clock,
          ret, written, stationVars, dataVars>>

connVars == <<_data, _running, _connected>>
threadVars == <<_started, _target, alive, pc, counter, rstep>>
histVars == <<ncycles, nok, last>>

(***************************************************************************)
(* Bounds and program constants                                            *)
(***************************************************************************)
\* thread join checks per second
tps == 20

\* time resolution of the model: clock units per sleep increment (1/tps s)
UnitsPerTick == 2

\* refresh() invocations followed per thread
MaxCycles == 3

\* the polling period (int(1e9) ns) in clock units
Period == tps * UnitsPerTick

Absent == "absent"
Keys == {"position", "speed"}
\* the values a store() writes
Values == {"v1", "v2"}

\* the keys a refresh() of the modelled subtype stores, in order
RefreshKeys == <<"position", "speed">>

\* the fallbacks a load() is given
Fallbacks == {"None", "fb"}

\* no cache read has returned
NoRet == [op |-> "none", key |-> "none", value |-> "none", mid |-> FALSE]

Max(a, b) == IF a >= b THEN a ELSE b

(***************************************************************************)
(* DataConnector                                                           *)
(***************************************************************************)
\* DataStorage(): an empty UserDict
DataStorage == [k \in Keys |-> Absent]

\* load(key, __default): self._data.get(key, __default)
load(d, key, fallback) == IF d[key] = Absent THEN fallback ELSE d[key]

\* mutant: store() keeps the value a key already has
storeIfAbsent(d, key, value) == IF d[key] = Absent THEN [d EXCEPT ![key] = value] ELSE d

\* store(key, value): self._data[key] = value
store(d, key, value) == [d EXCEPT ![key] = value]

\* mutant: __getitem__ reads like load() with no fallback
getitemNoRaise(d, item) == [raised |-> "none", value |-> d[item]]

\* __getitem__(item): self._data[item], a KeyError when the key is missing
getitem(d, item) ==
    IF d[item] = Absent
    THEN [raised |-> "KeyError", value |-> "none"]
    ELSE [raised |-> "none", value |-> d[item]]

\* __setitem__(key, value): self._data[key] = value
setitem(d, key, value) == [d EXCEPT ![key] = value]

\* mutant: the property reads the connectivity flag alone
connectedFlagOnly == _connected

\* the property ``connected``: self._connected and self._running
connected == _connected /\ _running

(***************************************************************************)
(* Initial state: PollingDataConnector.__init__                            *)
(***************************************************************************)
InitConnector ==
    /\ _data = DataStorage
    /\ _running = FALSE
    /\ _connected = FALSE
    /\ _started = FALSE
    /\ _target = "_run"
    /\ alive = FALSE
    /\ pc = "new"
    /\ counter = 0
    /\ rstep = 0
    /\ callerpc = "ready"
    /\ lastOp = "init"
    /\ err = "none"
    /\ ncycles = 0
    /\ nok = 0
    /\ last = "none"
    /\ wasReset = FALSE
    /\ clock = 0
    /\ ret = NoRet
    /\ written = [k \in Keys |-> "never"]

(***************************************************************************)
(* The caller                                                              *)
(***************************************************************************)
\* mutant: start() spawns a thread whether or not one was started before
StartAgain ==
    /\ callerpc = "ready"
    /\ lastOp' = "start"
    /\ err' = "none"
    /\ _started' = TRUE
    /\ alive' = TRUE
    /\ pc' = "run"
    /\ UNCHANGED <<_target, counter, rstep>>
    /\ UNCHANGED <<connVars, callerpc, histVars, wasReset>>
    /\ ret' = NoRet
    /\ UNCHANGED <<clock, written, stationVars, dataVars>>

\* start(): inherited from threading.Thread (the class defines none).  A second
\* start() raises RuntimeError("threads can only be started once"); otherwise the
\* thread is spawned and is alive when start() returns.  _running is not touched.
Start ==
    /\ callerpc = "ready"
    /\ lastOp' = "start"
    /\ IF _started
       THEN /\ err' = "RuntimeError"
            /\ UNCHANGED threadVars
       ELSE /\ err' = "none"
            /\ _started' = TRUE
            /\ alive' = TRUE
            /\ pc' = "run"
            /\ UNCHANGED <<_target, counter, rstep>>
    /\ UNCHANGED <<connVars, callerpc, histVars, wasReset>>
    /\ ret' = NoRet
    /\ UNCHANGED <<clock, written, stationVars, dataVars>>

\* The write _running = True.  No code under src/ performs it; it is the
\* Idle/Stopped -> Running part of the specified start(), done by the connector's
\* user at any moment it is not blocked in a call.
SetRunning ==
    /\ callerpc = "ready"
    /\ ~_running
    /\ _running' = TRUE
    /\ lastOp' = "set_running"
    /\ err' = "none"
    /\ UNCHANGED <<_data, _connected, threadVars, callerpc, histVars, wasReset>>
    /\ ret' = NoRet
    /\ UNCHANGED <<clock, written, stationVars, dataVars>>

\* mutant: stop() clears the flag and returns without joining the thread
StopNoJoin ==
    /\ callerpc = "ready"
    /\ _running' = FALSE
    /\ lastOp' = "stop"
    /\ err' = "none"
    /\ UNCHANGED <<_data, _connected, threadVars, callerpc, histVars, wasReset>>
    /\ ret' = NoRet
    /\ UNCHANGED <<clock, written, stationVars, dataVars>>

\* mutant: stop() also discards the cache
StopClearsCache ==
    /\ callerpc = "ready"
    /\ _running' = FALSE
    /\ lastOp' = "stop"
    /\ err' = "none"
    /\ callerpc' = IF alive THEN "stop_join" ELSE "ready"
    /\ _data' = DataStorage
    /\ UNCHANGED <<_connected, threadVars, histVars, wasReset>>
    /\ ret' = NoRet
    /\ UNCHANGED <<clock, written, stationVars, dataVars>>

\* stop(): self._running = False; if self.is_alive(): self.join()
Stop ==
    /\ callerpc = "ready"
    /\ _running' = FALSE
    /\ lastOp' = "stop"
    /\ err' = "none"
    /\ callerpc' = IF alive THEN "stop_join" ELSE "ready"
    /\ UNCHANGED <<_data, _connected, threadVars, histVars, wasReset>>
    /\ ret' = NoRet
    /\ UNCHANGED <<clock, written, stationVars, dataVars>>

\* join() returns once the thread has terminated
StopReturn ==
    /\ callerpc = "stop_join"
    /\ ~alive
    /\ callerpc' = "ready"
    /\ UNCHANGED <<connVars, threadVars, lastOp, err, histVars, wasReset>>
    /\ UNCHANGED <<clock, ret, written, stationVars, dataVars>>

\* mutant: reset() re-initialises the thread but keeps the cache
ReinitKeepsData ==
    /\ _started' = FALSE
    /\ _target' = "None"
    /\ alive' = FALSE
    /\ pc' = "new"
    /\ counter' = 0
    /\ rstep' = 0
    /\ _data' = _data
    /\ _connected' = FALSE
    /\ ncycles' = 0
    /\ nok' = 0
    /\ last' = "none"
    /\ wasReset' = TRUE
    /\ clock' = 0
    /\ written' = [k \in Keys |-> "never"]

\* the rest of reset() after stop(): Thread.__init__(self) (no target),
\* DataConnector.__init__(self), self._connected = False
Reinit ==
    /\ _started' = FALSE
    /\ _target' = "None"
    /\ alive' = FALSE
    /\ pc' = "new"
    /\ counter' = 0
    /\ rstep' = 0
    /\ _data' = DataStorage
    /\ _connected' = FALSE
    /\ ncycles' = 0
    /\ nok' = 0
    /\ last' = "none"
    /\ wasReset' = TRUE
    /\ clock' = 0
    /\ written' = [k \in Keys |-> "never"]

\* reset(): self.stop() first; when the thread is alive the caller blocks in join()
Reset ==
    /\ callerpc = "ready"
    /\ lastOp' = "reset"
    /\ err' = "none"
    /\ _running' = FALSE
    /\ IF alive
       THEN /\ callerpc' = "reset_join"
            /\ UNCHANGED <<_data, _connected, threadVars, histVars, wasReset,
                           clock, written>>
       ELSE /\ callerpc' = "ready"
            /\ Reinit
    /\ ret' = NoRet
    /\ UNCHANGED <<stationVars, dataVars>>

ResetReturn ==
    /\ callerpc = "reset_join"
    /\ ~alive
    /\ callerpc' = "ready"
    /\ Reinit
    /\ UNCHANGED <<_running, lastOp, err, ret, stationVars, dataVars>>

\* a foreground store(key, value)
Store(key, value) ==
    /\ callerpc = "ready"
    /\ _data' = store(_data, key, value)
    /\ lastOp' = "store"
    /\ err' = "none"
    /\ UNCHANGED <<_running, _connected, threadVars, callerpc, histVars, wasReset>>
    /\ written' = [written EXCEPT ![key] = value]
    /\ ret' = NoRet
    /\ UNCHANGED <<clock, stationVars, dataVars>>

\* the refresh() in flight has made some of its store() calls, not all
MidRefresh == pc = "refresh" /\ 0 < rstep /\ rstep < Len(RefreshKeys)

\* mutant: load() waits while a refresh() is in flight
LoadLocked(key, fallback) ==
    /\ callerpc = "ready"
    /\ pc # "refresh"
    /\ ret' = [op |-> "load", key |-> key, value |-> load(_data, key, fallback),
               mid |-> MidRefresh]
    /\ lastOp' = "load"
    /\ err' = "none"
    /\ UNCHANGED <<connVars, threadVars, callerpc, histVars, wasReset, clock,
                   written, stationVars, dataVars>>

\* a foreground load(key, fallback)
Load(key, fallback) ==
    /\ callerpc = "ready"
    /\ ret' = [op |-> "load", key |-> key, value |-> load(_data, key, fallback),
               mid |-> MidRefresh]
    /\ lastOp' = "load"
    /\ err' = "none"
    /\ UNCHANGED <<connVars, threadVars, callerpc, histVars, wasReset, clock,
                   written, stationVars, dataVars>>

\* a foreground connector[item]
GetItem(item) ==
    /\ callerpc = "ready"
    /\ err' = getitem(_data, item).raised
    /\ ret' = IF getitem(_data, item).raised = "none"
              THEN [op |-> "getitem", key |-> item,
                    value |-> getitem(_data, item).value, mid |-> MidRefresh]
              ELSE NoRet
    /\ lastOp' = "getitem"
    /\ UNCHANGED <<connVars, threadVars, callerpc, histVars, wasReset, clock,
                   written, stationVars, dataVars>>

\* a foreground connector[key] = value
SetItem(key, value) ==
    /\ callerpc = "ready"
    /\ _data' = setitem(_data, key, value)
    /\ written' = [written EXCEPT ![key] = value]
    /\ lastOp' = "setitem"
    /\ err' = "none"
    /\ ret' = NoRet
    /\ UNCHANGED <<_running, _connected, threadVars, callerpc, histVars, wasReset,
                   clock, stationVars, dataVars>>

(***************************************************************************)
(* The thread                                                              *)
(***************************************************************************)
\* Thread.run: calls the target when there is one, then the thread ends.
\* _run begins with counter = 0.
RunEntry ==
    /\ pc = "run"
    /\ IF _target = "_run"
       THEN /\ pc' = "while"
            /\ counter' = 0
            /\ UNCHANGED alive
       ELSE /\ pc' = "done"
            /\ alive' = FALSE
            /\ UNCHANGED counter
    /\ UNCHANGED <<connVars, _started, _target, rstep, callerpc, lastOp, err,
                   histVars, wasReset>>
    /\ UNCHANGED <<clock, ret, written, stationVars, dataVars>>

\* while self._running: ... ; the loop ends when the flag reads false
LoopExit ==
    /\ pc = "while"
    /\ ~_running
    /\ pc' = "done"
    /\ alive' = FALSE
    /\ UNCHANGED <<connVars, _started, _target, counter, rstep, callerpc, lastOp,
                   err, histVars, wasReset>>
    /\ UNCHANGED <<clock, ret, written, stationVars, dataVars>>

\* mutant: the wait does not look at the flag, only a new cycle does
SleepBeginUnchecked ==
    /\ pc = "while"
    /\ counter # 0
    /\ pc' = "sleep"
    /\ UNCHANGED <<connVars, _started, _target, alive, counter, rstep, callerpc,
                   lastOp, err, histVars, wasReset>>
    /\ UNCHANGED <<clock, ret, written, stationVars, dataVars>>

\* if counter != 0: time.sleep(1 / tps) ...
SleepBegin ==
    /\ pc = "while"
    /\ _running
    /\ counter # 0
    /\ pc' = "sleep"
    /\ UNCHANGED <<connVars, _started, _target, alive, counter, rstep, callerpc,
                   lastOp, err, histVars, wasReset>>
    /\ UNCHANGED <<clock, ret, written, stationVars, dataVars>>

\* ... counter = (counter + 1) % tps; continue
SleepEnd ==
    /\ pc = "sleep"
    /\ counter' = (counter + 1) % tps
    /\ pc' = "while"
    /\ UNCHANGED <<connVars, _started, _target, alive, rstep, callerpc, lastOp,
                   err, histVars, wasReset>>
    /\ clock' = clock + UnitsPerTick
    /\ UNCHANGED <<ret, written, stationVars, dataVars>>

\* counter == 0: target = time.time_ns() + int(1e9); self.refresh() is invoked
RefreshBegin ==
    /\ pc = "while"
    /\ _running
    /\ counter = 0
    /\ ncycles < MaxCycles
    /\ pc' = "refresh"
    /\ rstep' = 0
    /\ ncycles' = ncycles + 1
    /\ UNCHANGED <<connVars, _started, _target, alive, counter, callerpc, lastOp,
                   err, nok, last, wasReset>>
    /\ clock' = 0
    /\ UNCHANGED <<ret, written, stationVars, dataVars>>

\* one store() of the refresh() in flight
RefreshStore(value) ==
    /\ pc = "refresh"
    /\ rstep < Len(RefreshKeys)
    /\ _data' = store(_data, RefreshKeys[rstep + 1], value)
    /\ rstep' = rstep + 1
    /\ UNCHANGED <<_running, _connected, _started, _target, alive, pc, counter,
                   callerpc, lastOp, err, histVars, wasReset>>
    /\ written' = [written EXCEPT ![RefreshKeys[rstep + 1]] = value]
    /\ UNCHANGED <<clock, ret, stationVars, dataVars>>

\* mutant: the remaining time is not clamped at zero
NextCounterNoClamp(elapsed) == (tps - (((Period - elapsed) * tps) \div Period)) % tps

\* counter = (tps - int(max(0.0, (target - time.time_ns()) / 1e9) * tps)) % tps
\* with elapsed = time.time_ns() - (target - int(1e9)), in clock units
NextCounter(elapsed) == (tps - ((Max(0, Period - elapsed) * tps) \div Period)) % tps

\* refresh() returns: self._connected = True, then the counter for the wait
RefreshReturn(elapsed) ==
    /\ pc = "refresh"
    /\ rstep = Len(RefreshKeys)
    /\ _connected' = TRUE
    /\ counter' = NextCounter(elapsed)
    /\ pc' = "while"
    /\ nok' = nok + 1
    /\ last' = "ok"
    /\ UNCHANGED <<_data, _running, _started, _target, alive, rstep, callerpc,
                   lastOp, err, ncycles, wasReset>>
    /\ clock' = elapsed
    /\ UNCHANGED <<ret, written, stationVars, dataVars>>

\* mutant: the except branch marks the connector connected
RefreshConnErrorMarks ==
    /\ pc = "refresh"
    /\ pc' = "while"
    /\ last' = "connerr"
    /\ _connected' = TRUE
    /\ UNCHANGED <<_data, _running, _started, _target, alive, counter, rstep,
                   callerpc, lastOp, err, ncycles, nok, wasReset>>
    /\ UNCHANGED <<clock, ret, written, stationVars, dataVars>>

\* mutant: APIConnectionError is not caught and ends the thread
RefreshConnErrorUncaught ==
    /\ pc = "refresh"
    /\ pc' = "done"
    /\ alive' = FALSE
    /\ last' = "connerr"
    /\ UNCHANGED <<connVars, _started, _target, counter, rstep, callerpc, lastOp,
                   err, ncycles, nok, wasReset>>
    /\ UNCHANGED <<clock, ret, written, stationVars, dataVars>>

\* except APIConnectionError: log the error; continue
RefreshConnError ==
    /\ pc = "refresh"
    /\ pc' = "while"
    /\ last' = "connerr"
    /\ UNCHANGED <<connVars, _started, _target, alive, counter, rstep, callerpc,
                   lastOp, err, ncycles, nok, wasReset>>
    /\ UNCHANGED <<clock, ret, written, stationVars, dataVars>>

\* mutant: every exception is caught and the loop goes on
RefreshOtherErrorCaught ==
    /\ pc = "refresh"
    /\ pc' = "while"
    /\ last' = "error"
    /\ UNCHANGED <<connVars, _started, _target, alive, counter, rstep, callerpc,
                   lastOp, err, ncycles, nok, wasReset>>
    /\ UNCHANGED <<clock, ret, written, stationVars, dataVars>>

\* any other exception leaves _run: the thread ends
RefreshOtherError ==
    /\ pc = "refresh"
    /\ pc' = "done"
    /\ alive' = FALSE
    /\ last' = "error"
    /\ UNCHANGED <<connVars, _started, _target, counter, rstep, callerpc, lastOp,
                   err, ncycles, nok, wasReset>>
    /\ UNCHANGED <<clock, ret, written, stationVars, dataVars>>

(***************************************************************************)
(* _LazyStation.connections (src/onboardapis/trains/__init__.py): a station *)
(* read by one thread, time in whole seconds.                               *)
(***************************************************************************)
\* _cache_timeout: int = 60
DefaultCacheTimeout == 60

\* largest _cache_timeout a station is constructed with
MaxTtl == 2

\* the clock is followed up to this time
MaxNow == 6

\* longest time a call of the fetch callback takes
MaxFetchTime == 1

StationIds == {"s1", "s2"}

\* what Station._connections holds and the callback returns: a list or None
Connections == {"None", "c1", "c2"}

\* how a call of the callback ends: it returns a result or it raises
Raise == "raise"
Outcomes == Connections \cup {Raise}

\* nothing read and nothing fetched yet
NoRead ==
    [value |-> "unread", fetched |-> 0, arg |-> "none", before |-> "unread",
     at |-> 0, fetchAt |-> 0, fetchValue |-> "none", raised |-> "none"]

\* _LazyStation.__init__(station_id, connections=..., lazy_func=..., _cache_timeout=...)
InitStation(station_id, conns, lazy_func, timeout) ==
    /\ _id = station_id
    /\ _connections = conns
    /\ _lazy_func = lazy_func
    /\ _cache_valid_until = 0
    /\ _cache_timeout = timeout
    /\ now = 1
    /\ lazyRet = NoRead

\* the callback was called and raised: the read returns nothing, the exception
\* reaches the reader
RaisedRead ==
    [lazyRet EXCEPT !.value = "none", !.fetched = 1, !.arg = _id,
                    !.before = _connections, !.at = now,
                    !.raised = "Exception"]

\* mutant: request_data() sets the expiry before it calls the callback
request_dataExpiryFirst(result, d) ==
    /\ now' = now + d
    /\ _cache_valid_until' = now + _cache_timeout
    /\ IF result = Raise
       THEN /\ lazyRet' = RaisedRead
            /\ UNCHANGED _connections
       ELSE /\ _connections' = result
            /\ lazyRet' = [value |-> result, fetched |-> 1, arg |-> _id,
                           before |-> _connections, at |-> now,
                           fetchAt |-> now + d, fetchValue |-> result,
                           raised |-> "none"]

\* request_data(): connections = self._lazy_func(self.id), which ends after d
\* seconds.  When it returns, the result is stored and cached for _cache_timeout
\* seconds; when it raises, the two assignments after it are not executed.
request_data(result, d) ==
    /\ now' = now + d
    /\ IF result = Raise
       THEN /\ lazyRet' = RaisedRead
            /\ UNCHANGED <<_connections, _cache_valid_until>>
       ELSE /\ _connections' = result
            /\ _cache_valid_until' = now + d + _cache_timeout
            /\ lazyRet' = [value |-> result, fetched |-> 1, arg |-> _id,
                           before |-> _connections, at |-> now,
                           fetchAt |-> now + d, fetchValue |-> result,
                           raised |-> "none"]

\* return self._connections
ReturnStored ==
    /\ lazyRet' = [lazyRet EXCEPT !.value = _connections, !.fetched = 0,
                                  !.arg = "none", !.before = _connections,
                                  !.at = now, !.raised = "none"]
    /\ UNCHANGED <<_connections, now, _cache_valid_until>>

\* the frame of a read of the property
ReadFrame ==
    UNCHANGED <<_id, _lazy_func, _cache_timeout, connVars, threadVars, callerpc,
                lastOp, err, histVars, wasReset, clock, ret, written, dataVars>>

\* mutant: the property calls the callback without testing that there is one
connectionsNoStaticTest(result, d) ==
    /\ now + d <= MaxNow
    /\ IF now > _cache_valid_until
       THEN request_data(result, d)
       ELSE IF _connections = "None"
            THEN request_data(result, d)
            ELSE d = 0 /\ ReturnStored
    /\ ReadFrame

\* mutant: the property fetches only while nothing is stored, never on expiry
connectionsNoExpiry(result, d) ==
    /\ now + d <= MaxNow
    /\ IF _lazy_func = "None"
       THEN d = 0 /\ ReturnStored
       ELSE IF _connections = "None"
            THEN request_data(result, d)
            ELSE d = 0 /\ ReturnStored
    /\ ReadFrame

\* a read of the property connections; result and d are how a call of the
\* callback would end and how long it would take
connections(result, d) ==
    /\ now + d <= MaxNow
    /\ IF _lazy_func = "None"
       THEN d = 0 /\ ReturnStored
       ELSE IF now > _cache_valid_until
            THEN request_data(result, d)
            ELSE IF _connections = "None"
                 THEN request_data(result, d)
                 ELSE d = 0 /\ ReturnStored
    /\ ReadFrame

\* time passes
Tick ==
    /\ now < MaxNow
    /\ now' = now + 1
    /\ UNCHANGED <<_id, _connections, _lazy_func, _cache_valid_until,
                   _cache_timeout, lazyRet, connVars, threadVars, callerpc,
                   lastOp, err, histVars, wasReset, clock, ret, written,
                   dataVars>>

(***************************************************************************)
(* default() and ScheduledEvent (src/onboardapis/data.py).  A Python value *)
(* is written as its literal.                                              *)
(***************************************************************************)
\* the values passed as arguments: None, ints, strs, bytes and lists
PyValues == {"None", "0", "7", "''", "'a'", "b''", "b'a'", "[]", "['a']"}

\* the values passed as __default
PyDefaults == {"None", "'d'", "7"}

\* the function object default
FunctionDefault == "<function default>"

\* isinstance(x, str), isinstance(x, bytes), isinstance(x, Collection)
IsStr(x) == x \in {"''", "'a'"}
IsBytes(x) == x \in {"b''", "b'a'"}
IsCollection(x) == x \in {"''", "'a'", "b''", "b'a'", "[]", "['a']"}

\* len(x) == 0, for a collection
LenZero(x) == x \in {"''", "b''", "[]"}

\* bool(x): None, 0 and the empty collections are false
Truthy(x) == x \notin {"None", "0", "''", "b''", "[]"}

\* x or y
PyOr(x, y) == IF Truthy(x) THEN x ELSE y

\* default(arg, __default, empty_collection=...); the name default in its last
\* test's return statement is the function itself
default(arg, __default, empty_collection) ==
    IF arg = "None" THEN __default
    ELSE IF IsStr(arg) /\ arg = "''" THEN __default
    ELSE IF IsBytes(arg) /\ arg = "b''" THEN __default
    ELSE IF empty_collection /\ IsCollection(arg) /\ LenZero(arg)
         THEN FunctionDefault
         ELSE arg

\* no ScheduledEvent constructed, default() not called
NoArgs == [scheduled |-> "unset", actual |-> "unset"]
NoCall ==
    [arg |-> "none", __default |-> "none", empty_collection |-> FALSE,
     value |-> "uncalled"]

InitData ==
    /\ scheduled = "unset"
    /\ actual = "unset"
    /\ eventArgs = NoArgs
    /\ defaultRet = NoCall

\* what the functions of this section leave alone
DataFrame ==
    UNCHANGED <<connVars, threadVars, callerpc, lastOp, err, histVars, wasReset,
                clock, ret, written, stationVars>>

\* ScheduledEvent.__init__(scheduled, actual=None)
ScheduledEventInit(s, a) ==
    /\ scheduled' = s
    /\ actual' = PyOr(a, s)
    /\ eventArgs' = [scheduled |-> s, actual |-> a]
    /\ UNCHANGED defaultRet
    /\ DataFrame

\* a call default(arg, d, empty_collection=e)
Default(arg, d, e) ==
    /\ defaultRet' = [arg |-> arg, __default |-> d, empty_collection |-> e,
                      value |-> default(arg, d, e)]
    /\ UNCHANGED <<scheduled, actual, eventArgs>>
    /\ DataFrame

NextData ==
    \/ \E s \in PyValues, a \in PyValues : ScheduledEventInit(s, a)
    \/ \E arg \in PyValues, d \in PyDefaults, e \in BOOLEAN : Default(arg, d, e)

\* the connector of Spec comes with a station, an event and a default() that
\* are left alone
Init ==
    /\ InitConnector
    /\ InitStation("s1", "None", "None", DefaultCacheTimeout)
    /\ InitData

SpecData == Init /\ [][NextData]_vars

InitLazy ==
    /\ InitConnector
    /\ InitData
    /\ \E i \in StationIds, c \in Connections, f \in {"None", "fetch"},
          t \in 1..MaxTtl : InitStation(i, c, f, t)

NextLazy ==
    \/ Tick
    \/ \E r \in Outcomes, d \in 0..MaxFetchTime : connections(r, d)

SpecLazy == InitLazy /\ [][NextLazy]_vars

Next ==
    \/ Start
    \/ SetRunning
    \/ Stop
    \/ StopReturn
    \/ Reset
    \/ ResetReturn
    \/ \E k \in Keys, v \in Values : Store(k, v)
    \/ \E k \in Keys, v \in Values : SetItem(k, v)
    \/ \E k \in Keys, fb \in Fallbacks : Load(k, fb)
    \/ \E k \in Keys : GetItem(k)
    \/ RunEntry
    \/ LoopExit
    \/ SleepBegin
    \/ SleepEnd
    \/ RefreshBegin
    \/ \E v \in Values : RefreshStore(v)
    \/ \E e \in 0..(Period + 1) : RefreshReturn(e)
    \/ RefreshConnError
    \/ RefreshOtherError

Spec == Init /\ [][Next]_vars

TypeOK ==
    /\ _data \in [Keys -> Values \cup {Absent}]
    /\ _running \in BOOLEAN
    /\ _connected \in BOOLEAN
    /\ _started \in BOOLEAN
    /\ _target \in {"_run", "None"}
    /\ alive \in BOOLEAN
    /\ pc \in {"new", "run", "while", "sleep", "refresh", "done"}
    /\ counter \in 0..(tps - 1)
    /\ clock \in 0..(2 * Period)
    /\ written \in [Keys -> Values \cup {"never"}]
    /\ rstep \in 0..Len(RefreshKeys)
    /\ callerpc \in {"ready", "stop_join", "reset_join"}
    /\ ncycles \in 0..MaxCycles
    /\ nok \in 0..MaxCycles
    /\ last \in {"none", "ok", "connerr", "error"}
(***************************************************************************)
(* Properties                                                              *)
(***************************************************************************)
\* the thread is inside _run's loop
InLoop == pc \in {"while", "sleep", "refresh"}

\* every key reads as the fallback: the cache is empty
CacheEmpty == \A k \in Keys : load(_data, k, "fallback") = "fallback"

\* C1: once stop() has returned, and until the caller's next call, the thread has
\* terminated: it is not alive, no refresh() is in flight and no step of the loop
\* (so no store() of the loop) can follow.
C1_StopJoinsLoop ==
    (lastOp = "stop" /\ callerpc = "ready") => (~alive /\ pc \in {"new", "done"})

\* a stop() that found the loop alive with a refresh() behind it has returned
C1_Witness ==
    /\ lastOp = "stop"
    /\ callerpc = "ready"
    /\ pc = "done"
    /\ nok > 0
    /\ _data["position"] # Absent

\* C2: after a start() that raised nothing the connector is Running: the running
\* flag is true.
C2_StartMakesRunning ==
    (lastOp = "start" /\ err = "none" /\ ~wasReset) => _running

\* C3 as stated: start() on a connector that is already Running (flag set, loop
\* alive) raises no error and changes no state.
C3_RestartIsSilent ==
    [][(Start /\ _running /\ alive) =>
          (err' = "none" /\ UNCHANGED <<connVars, threadVars, histVars>>)]_vars

\* C3 amended: start() on a connector whose thread was already started raises
\* RuntimeError, changes no state of the connector or of its thread, and spawns
\* no second loop.
C3_RestartRaises ==
    [][(Start /\ _started) =>
          (err' = "RuntimeError" /\ UNCHANGED <<connVars, threadVars, histVars>>)]_vars

\* start() was called while the loop was in a refresh() and raised
C3_Witness ==
    /\ lastOp = "start"
    /\ err = "RuntimeError"
    /\ _running
    /\ alive
    /\ pc = "refresh"

\* C4: connected reads true only if a refresh() has succeeded since construction
\* or the last reset(); while no refresh() has succeeded the connectivity flag is
\* false however often refresh() failed; and once one has succeeded connected
\* reads true whenever running is true.
C4_ConnectedIffRefreshed ==
    /\ connected => nok > 0
    /\ nok = 0 => ~_connected
    /\ (nok > 0 /\ _running) => connected

\* refresh() failed twice and never succeeded: running, not connected
C4_Witness ==
    /\ _running
    /\ alive
    /\ ncycles >= 2
    /\ nok = 0
    /\ last = "connerr"
    /\ ~connected

\* C5: connected reads true only if running is true, and it reads false from the
\* moment stop() (also the one inside reset()) has cleared the flag until the
\* caller's next call, whatever the underlying connectivity flag holds.
C5_ConnectedOnlyWhileRunning ==
    /\ connected => _running
    /\ (lastOp \in {"stop", "reset"} \/ callerpc # "ready") => ~connected

\* stop() has been called on a connected connector: the flag is still set
C5_Witness ==
    /\ lastOp = "stop"
    /\ _connected
    /\ ~connected

\* C6: after reset() has returned the cache is empty, connected and running are
\* false and no thread is alive.
C6_ResetYieldsIdle ==
    (lastOp = "reset" /\ callerpc = "ready") =>
        (CacheEmpty /\ ~connected /\ ~_running /\ ~_connected /\ ~alive)

\* reset() has returned
C6_Witness ==
    /\ lastOp = "reset"
    /\ callerpc = "ready"
    /\ wasReset
    /\ pc = "new"
    /\ CacheEmpty

\* C7: a connector that was reset() and started again polls like a new one: with
\* the running flag set and no error raised by refresh(), a started thread that
\* has entered its run method is alive in the polling loop.
C7_ResetThenStartPolls ==
    (wasReset /\ lastOp = "start" /\ err = "none" /\ _running /\ pc # "run"
        /\ last # "error") => (alive /\ InLoop)

\* C8: an APIConnectionError of refresh() is caught: the thread stays alive at the
\* head of the loop with counter 0 (the next cycle refreshes without sleeping),
\* running, the connectivity flag and the caller are untouched; and when the
\* first refresh() failed and the second succeeded, connected reads true while
\* running and every key refresh() stores is loadable.
C8_ConnErrorCaught ==
    /\ [][RefreshConnError =>
            (pc' = "while" /\ alive' /\ counter' = 0 /\
             UNCHANGED <<connVars, callerpc, lastOp, err>>)]_vars
    /\ []((ncycles = 2 /\ nok = 1 /\ last = "ok" /\ _running) =>
            (connected /\
             \A i \in 1..Len(RefreshKeys) :
                 load(_data, RefreshKeys[i], Absent) # Absent))

\* first refresh() failed, second succeeded, loop still alive
C8_Witness ==
    /\ ncycles = 2
    /\ nok = 1
    /\ last = "ok"
    /\ alive
    /\ connected
    /\ load(_data, "position", Absent) # Absent

\* C9: after a cycle whose refresh() failed with a connectivity error connected
\* reads false until a later refresh() succeeds.
C9_ConnErrorClearsConnected ==
    last = "connerr" => ~connected

\* C10: an error of refresh() other than APIConnectionError ends the thread: the
\* connectivity flag is not set for that cycle, and afterwards the thread is dead
\* and invokes no further refresh().
C10_OtherErrorEndsLoop ==
    /\ [][RefreshOtherError =>
            (pc' = "done" /\ ~alive' /\ UNCHANGED <<connVars, ncycles, nok>>)]_vars
    /\ [](last = "error" => (pc = "done" /\ ~alive))

\* the first refresh() raised such an error
C10_Witness ==
    /\ last = "error"
    /\ ncycles = 1
    /\ pc = "done"
    /\ _running
    /\ ~_connected
\* some call of the station's fetch callback has returned
Fetched == lazyRet.fetchAt > 0

\* C11: with a fetch callback, whatever it returned: a read made within
\* _cache_timeout seconds of the latest fetch returns that fetch's value and
\* does not call the callback, and a read made later calls it exactly once.
C11_OneFetchPerWindow ==
    [][\A r \in Connections, d \in 0..MaxFetchTime :
          (connections(r, d) /\ _lazy_func # "None" /\ Fetched) =>
              IF now <= lazyRet.fetchAt + _cache_timeout
              THEN lazyRet'.fetched = 0 /\ lazyRet'.value = lazyRet.fetchValue
              ELSE lazyRet'.fetched = 1]_vars

\* C12: without a fetch callback every read returns the stored value, calls
\* nothing and leaves the stored value and the expiry as they were; no fetch is
\* ever recorded and the expiry stays 0.
C12_StaticNeverFetches ==
    /\ [][\A r \in Connections, d \in 0..MaxFetchTime :
            (connections(r, d) /\ _lazy_func = "None") =>
                (/\ lazyRet'.value = _connections
                 /\ lazyRet'.fetched = 0
                 /\ UNCHANGED <<_connections, _cache_valid_until>>)]_vars
    /\ [](_lazy_func = "None" => (~Fetched /\ _cache_valid_until = 0))

\* a station without callback was read long after construction
C12_Witness ==
    /\ _lazy_func = "None"
    /\ lazyRet.at > _cache_timeout + 1
    /\ lazyRet.value = "c1"
    /\ lazyRet.fetched = 0

\* C13: with a fetch callback, a read made after the expiry (the first read is
\* one: the expiry starts at 0) calls the callback once with the station's id,
\* stores and returns its result and sets the expiry to the time after the call
\* plus _cache_timeout, whatever was stored before; a read made before the
\* expiry with a value stored returns that value and calls nothing.
C13_FetchOnExpiry ==
    /\ [][\A r \in Connections, d \in 0..MaxFetchTime :
            (connections(r, d) /\ _lazy_func # "None") =>
                IF now > _cache_valid_until
                THEN /\ lazyRet'.fetched = 1
                     /\ lazyRet'.arg = _id
                     /\ _connections' = r
                     /\ lazyRet'.value = r
                     /\ _cache_valid_until' = now' + _cache_timeout
                ELSE _connections # "None" =>
                        (/\ lazyRet'.fetched = 0
                         /\ lazyRet'.value = _connections
                         /\ UNCHANGED <<_connections, _cache_valid_until>>)]_vars
    /\ [](lazyRet.at = 0 => now > _cache_valid_until)

\* an expired value was replaced by a fresh, different one
C13_Witness ==
    /\ _lazy_func = "fetch"
    /\ lazyRet.fetched = 1
    /\ lazyRet.before = "c1"
    /\ lazyRet.value = "c2"
    /\ lazyRet.arg = _id
    /\ _cache_valid_until = now + _cache_timeout

\* C14: a load(key, fallback) returns the fallback when nothing was stored under
\* the key since the cache was created and the value of the latest store()
\* or index-set under it otherwise; it raises nothing and leaves the cache alone.
C14_LoadReturnsLatestStore ==
    [][\A k \in Keys, fb \in Fallbacks :
          Load(k, fb) =>
              (/\ ret'.value = IF written[k] = "never" THEN fb ELSE written[k]
               /\ err' = "none"
               /\ _data' = _data)]_vars

\* a load returned a stored value while the other key was never stored
C14_Witness ==
    /\ ret.op = "load"
    /\ ret.key = "speed"
    /\ ret.value = "v2"
    /\ written["speed"] = "v2"
    /\ written["position"] = "never"

\* C15: connector[key] = v changes the cache as store(key, v) does;
\* connector[key] returns what load(key) returns when the key is present and
\* raises KeyError when it is absent; a read never changes the cache.
C15_IndexAccess ==
    [][/\ \A k \in Keys, v \in Values :
            SetItem(k, v) => (_data' = store(_data, k, v) /\ err' = "none")
       /\ \A k \in Keys :
            GetItem(k) =>
                (/\ _data' = _data
                 /\ IF written[k] # "never"
                    THEN err' = "none" /\ ret'.value = load(_data, k, "None")
                    ELSE err' = "KeyError" /\ ret' = NoRet)]_vars

\* connector[key] raised KeyError on a cache that holds another key
C15_Witness ==
    /\ lastOp = "getitem"
    /\ err = "KeyError"
    /\ written["position"] # "never"
    /\ written["speed"] = "never"

\* C16: after a refresh() that succeeded the next cycle begins no earlier than
\* one sleep increment before the target: whenever the loop is at its head with
\* counter 0 after a successful refresh(), at least Period - UnitsPerTick clock
\* units have passed since the cycle computed its target.
C16_NextRefreshNearTarget ==
    (pc = "while" /\ counter = 0 /\ last = "ok") => clock >= Period - UnitsPerTick

\* C17: a refresh() that took the period or longer leaves counter 0 (no wait),
\* no sleep increment ever begins once the period has passed since the cycle's
\* start, and counter stays within 0..tps-1.
C17_ClampedWait ==
    /\ [][\A e \in 0..(Period + 1) :
            (RefreshReturn(e) /\ e >= Period) => (counter' = 0 /\ pc' = "while")]_vars
    /\ [][SleepBegin => clock < Period]_vars
    /\ [](counter \in 0..(tps - 1))

\* a refresh() longer than the period has returned and the next cycle is due
C17_Witness ==
    /\ pc = "while"
    /\ counter = 0
    /\ last = "ok"
    /\ clock > Period
    /\ _running

\* C18: while the caller is blocked in stop() the flag is clear, so the loop
\* starts no new sleep increment (the one in progress is the last) and invokes
\* no refresh(); a refresh() in flight ends only by returning or raising, and
\* the caller resumes only when the thread has ended.
C18_CooperativeStop ==
    /\ [](callerpc # "ready" => ~_running)
    /\ [][callerpc # "ready" =>
            (/\ pc' = "refresh" => pc = "refresh"
             /\ ~(pc = "while" /\ pc' = "sleep")
             /\ (pc = "refresh" /\ pc' # "refresh") => last' \in {"ok", "connerr", "error"}
             /\ callerpc' = "ready" => pc = "done")]_vars

\* stop() is waiting for a loop that is in its sleep increment
C18_Witness ==
    /\ callerpc = "stop_join"
    /\ pc = "sleep"
    /\ counter > 0

\* C19: stop() changes no cache entry and raises nothing, neither when it is
\* called nor when it returns from the join; on a connector that is not running
\* and has no live thread it changes nothing at all; and after it has returned
\* the cache stays as it is until the caller's next call.
C19_StopKeepsCache ==
    [][/\ (Stop \/ StopReturn) =>
            (_data' = _data /\ written' = written /\ err' = "none")
       /\ (Stop /\ ~_running /\ ~alive) =>
            (callerpc' = "ready" /\ UNCHANGED <<connVars, threadVars, histVars>>)
       /\ (lastOp = "stop" /\ callerpc = "ready" /\ lastOp' = "stop") =>
            _data' = _data]_vars

\* stop() has returned and what the loop stored is still in the cache
C19_Witness ==
    /\ lastOp = "stop"
    /\ callerpc = "ready"
    /\ pc = "done"
    /\ nok > 0
    /\ load(_data, "speed", "None") # "None"

\* C20: nothing orders the caller's reads with the loop's writes: whenever a
\* refresh() has made some of its store() calls and not the others, the keys
\* already stored are in the cache and a load() of every key is enabled.
C20_ReadsNotOrdered ==
    (MidRefresh /\ callerpc = "ready") =>
        (/\ \A k \in Keys : ENABLED Load(k, "fb")
         /\ \A i \in 1..rstep : _data[RefreshKeys[i]] # Absent)

\* a load() made in the middle of the first refresh() found speed absent while
\* position was already stored
C20_Witness ==
    /\ ret.op = "load"
    /\ ret.mid
    /\ ret.key = "speed"
    /\ ret.value = "fb"
    /\ MidRefresh
    /\ ncycles = 1
    /\ written["speed"] = "never"
    /\ _data["position"] # Absent

\* the fetch condition of a read: there is a callback and the stored value has
\* expired or is None
WouldFetch ==
    /\ _lazy_func # "None"
    /\ (now > _cache_valid_until \/ _connections = "None")

\* C24: a read whose call of the callback raises hands the exception to the
\* reader, returns no value and leaves the stored value and the expiry as they
\* were; from then on, until the next read, a read would call the callback
\* again, and the read that follows a failed one does call it.
C24_FetchFailureLeavesState ==
    /\ [][\A d \in 0..MaxFetchTime :
            (connections(Raise, d) /\ WouldFetch) =>
                (/\ lazyRet'.raised = "Exception"
                 /\ lazyRet'.value = "none"
                 /\ lazyRet'.fetched = 1
                 /\ UNCHANGED <<_connections, _cache_valid_until>>)]_vars
    /\ [][\A r \in Outcomes, d \in 0..MaxFetchTime :
            (connections(r, d) /\ lazyRet.raised = "Exception") =>
                (/\ lazyRet'.fetched = 1
                 /\ lazyRet'.arg = _id)]_vars
    /\ [](lazyRet.raised = "Exception" => WouldFetch)

\* the callback raised on a read of a value fetched earlier and expired since:
\* the value and its expiry are still the old ones
C24_Witness ==
    /\ lazyRet.raised = "Exception"
    /\ Fetched
    /\ _connections = "c1"
    /\ _connections = lazyRet.fetchValue
    /\ _cache_valid_until = lazyRet.fetchAt + _cache_timeout
    /\ now > _cache_valid_until

\* C21: an event constructed from scheduled value x has scheduled = x; without an
\* actual value (None) its actual is x, and with an actual value other than None
\* its actual is that value.
C21_ActualKept ==
    eventArgs # NoArgs =>
        (/\ scheduled = eventArgs.scheduled
         /\ (eventArgs.actual = "None" => actual = eventArgs.scheduled)
         /\ (eventArgs.actual # "None" => actual = eventArgs.actual))

\* C22: default(arg, d, empty_collection=e) returns d when arg is None, the
\* empty string, empty bytes or, with e true, an empty collection, and returns
\* arg otherwise.
C22_DefaultIffMissing ==
    defaultRet # NoCall =>
        LET arg == defaultRet.arg
            missing == \/ arg \in {"None", "''", "b''"}
                       \/ defaultRet.empty_collection /\ arg = "[]"
        IN  IF missing
            THEN defaultRet.value = defaultRet.__default
            ELSE defaultRet.value = arg

\* C23: whenever the property connected reads true, the thread of the polling
\* loop is alive and inside _run's loop.
C23_ConnectedImpliesLoopAlive == connected => (alive /\ InLoop)
====
